---- MODULE Spec2Model ----
(***************************************************************************)
(* Hall booking API: single bookings, recurring series, update and delete. *)
(*                                                                         *)
(* Encodings.  A date string "YYYY-MM-DD" is the integer YYYYMMDD and a    *)
(* canonical time string "HH:MM:SS" is the integer HHMMSS, so that the     *)
(* lexical order of the fixed-width strings is the integer order.  A time  *)
(* string as it arrives in a request is the tuple of its two-digit groups: *)
(* <<9,0>> is "09:00", <<9,0,0>> is "09:00:00", <<>> is the empty string   *)
(* and <<9>> is a string that matches neither pattern.  A JavaScript Date  *)
(* at local midnight is the tuple <<year, month 1..12, day>>.  Falsy       *)
(* request values (missing, null, "", 0) are 0, "" or <<>>.                *)
(***************************************************************************)
EXTENDS Integers, Sequences, FiniteSets, TLC

VARIABLES bookings, series, nextBookingId, nextSeriesId, req, resp, before

vars == <<bookings, series, nextBookingId, nextSeriesId, req, resp, before>>

(***************************************************************************)
(* Bounds of the model.                                                    *)
(***************************************************************************)
MaxBookings == 2
MaxSeries == 1

(***************************************************************************)
(* Program constants.                                                      *)
(***************************************************************************)
DefaultOccurrences == 10
UntilOccurrences == 10000
SafetyGuard == 500
MinPasswordLength == 4

(***************************************************************************)
(* Calendar arithmetic of the JavaScript Date object (local midnight).     *)
(***************************************************************************)
IsLeapYear(y) == (y % 4 = 0 /\ y % 100 # 0) \/ y % 400 = 0

DaysInMonth(y, m) ==
    IF m = 2 THEN (IF IsLeapYear(y) THEN 29 ELSE 28)
    ELSE IF m \in {4, 6, 9, 11} THEN 30 ELSE 31

RECURSIVE MakeDate(_, _, _)
\* Date normalisation: a month outside 1..12 carries into the year, a day
\* outside the month carries into the neighbouring month.
MakeDate(y, m, d) ==
    IF m > 12 THEN MakeDate(y + 1, m - 12, d)
    ELSE IF m < 1 THEN MakeDate(y - 1, m + 12, d)
    ELSE IF d > DaysInMonth(y, m) THEN MakeDate(y, m + 1, d - DaysInMonth(y, m))
    ELSE IF d < 1 THEN
        (IF m = 1 THEN MakeDate(y - 1, 12, d + 31)
         ELSE MakeDate(y, m - 1, d + DaysInMonth(y, m - 1)))
    ELSE <<y, m, d>>

\* Date.prototype.setDate(getDate() + n)
AddDays(dt, n) == MakeDate(dt[1], dt[2], dt[3] + n)

\* Date.prototype.setMonth(getMonth() + 1)
SetNextMonth(dt) == MakeDate(dt[1], dt[2] + 1, dt[3])

\* `${y}-${m}-${d}` with two-digit month and day
FormatDate(dt) == dt[1] * 10000 + dt[2] * 100 + dt[3]

\* new Date(`${s}T00:00:00`)
ParseDate(s) == <<s \div 10000, (s \div 100) % 100, s % 100>>

\* a > b on two Date objects
DateAfter(a, b) == FormatDate(a) > FormatDate(b)

RECURSIVE DaysBeforeMonth(_, _)
DaysBeforeMonth(y, m) ==
    IF m = 1 THEN 0 ELSE DaysBeforeMonth(y, m - 1) + DaysInMonth(y, m - 1)

\* Days from 1970-01-01 to the first day of year y (y >= 1970).
DaysBeforeYear(y) ==
    365 * (y - 1970) + ((y - 1) \div 4 - 1969 \div 4)
        - ((y - 1) \div 100 - 1969 \div 100) + ((y - 1) \div 400 - 1969 \div 400)

\* Date.prototype.getDay(): 0 = Sunday .. 6 = Saturday (1970-01-01 was a Thursday)
GetDay(dt) == (DaysBeforeYear(dt[1]) + DaysBeforeMonth(dt[1], dt[2]) + dt[3] + 3) % 7

(***************************************************************************)
(* Time strings.                                                           *)
(***************************************************************************)
InvalidTime == 0 - 1

\* "HH:MM" -> "HH:MM:00", "HH:MM:SS" -> itself, anything else throws.
normTime(t) ==
    IF Len(t) = 2 THEN t[1] * 10000 + t[2] * 100
    ELSE IF Len(t) = 3 THEN t[1] * 10000 + t[2] * 100 + t[3]
    ELSE InvalidTime

\* total minutes of a canonical time, seconds dropped
toMinutes(c) == (c \div 10000) * 60 + ((c \div 100) % 100)

(***************************************************************************)
(* Password hashing (bcryptjs): a one-way tagged value and its verifier.   *)
(***************************************************************************)
NoHash == <<>>

BcryptHash(p) == <<"bcrypt", p>>

BcryptCompare(p, h) == h = BcryptHash(p)

(***************************************************************************)
(* The store: table halls, table bookings, table series.                   *)
(***************************************************************************)
Halls == {1, 2}

\* unique (hall_id, date, start_time) on bookings
SlotKey(b) == <<b.hall_id, b.date, b.start_time>>

\* A batch of rows (a sequence) can be inserted next to the rows of table.
UniqueOk(table, rows) ==
    /\ \A i \in 1..Len(rows) : \A b \in table : SlotKey(b) # SlotKey(rows[i])
    /\ \A i, j \in 1..Len(rows) : i # j => SlotKey(rows[i]) # SlotKey(rows[j])

\* foreign key bookings.hall_id -> halls.id
ForeignKeyOk(rows) == \A i \in 1..Len(rows) : rows[i].hall_id \in Halls

\* rows of a batch with the identifiers the store gives them
WithIds(rows, first) == {[rows[i] EXCEPT !.id = first + i - 1] : i \in 1..Len(rows)}

(***************************************************************************)
(* Overlap detector: rows of table on (hall, date) that intersect          *)
(* [start, end), the row excludeId left out (0 = no exclusion).            *)
(***************************************************************************)
\* Mutant: closed intervals, so that touching bookings count as overlapping.
OverlappingClosed(table, hall_id, date, start_time, end_time, excludeId) ==
    {b \in table :
        /\ b.hall_id = hall_id
        /\ b.date = date
        /\ b.start_time <= end_time
        /\ b.end_time >= start_time
        /\ (excludeId # 0 => b.id # excludeId)}

\* Mutant: only the new start is tested against the stored interval.
OverlappingStartInside(table, hall_id, date, start_time, end_time, excludeId) ==
    {b \in table :
        /\ b.hall_id = hall_id
        /\ b.date = date
        /\ b.start_time <= start_time
        /\ b.end_time > start_time
        /\ (excludeId # 0 => b.id # excludeId)}

\* Mutant: the row excludeId is not left out.
OverlappingWithSelf(table, hall_id, date, start_time, end_time, excludeId) ==
    {b \in table :
        /\ b.hall_id = hall_id
        /\ b.date = date
        /\ b.start_time < end_time
        /\ b.end_time > start_time}

Overlapping(table, hall_id, date, start_time, end_time, excludeId) ==
    {b \in table :
        /\ b.hall_id = hall_id
        /\ b.date = date
        /\ b.start_time < end_time
        /\ b.end_time > start_time
        /\ (excludeId # 0 => b.id # excludeId)}

hasTimeOverlap(table, hall_id, date, start_time, end_time, excludeId) ==
    Cardinality(Overlapping(table, hall_id, date, start_time, end_time, excludeId)) > 0

(***************************************************************************)
(* Responses.                                                              *)
(***************************************************************************)
NoRow == [id |-> 0]

Response(status, error) == [status |-> status, error |-> error, row |-> NoRow, dates |-> <<>>]

NoReq == [op |-> "none"]

NoResp == Response(0, "none")

Snapshot == [bookings |-> bookings, series |-> series]

NoSnapshot == [bookings |-> {}, series |-> {}]

\* No request is being served.
Idle == req = NoReq

(***************************************************************************)
(* Initial state: empty tables.                                            *)
(***************************************************************************)
Init ==
    /\ bookings = {}
    /\ series = {}
    /\ nextBookingId = 1
    /\ nextSeriesId = 1
    /\ req = NoReq
    /\ resp = NoResp
    /\ before = NoSnapshot

(***************************************************************************)
(* Request inputs.                                                         *)
(***************************************************************************)
\* 2025-01-06 is a Monday; 2025-01-31 is the last day of a 31-day month.
Day1 == FormatDate(<<2025, 1, 6>>)
Day2 == FormatDate(<<2025, 1, 13>>)
MonthEnd == FormatDate(<<2025, 1, 31>>)

TimePairs ==
    { <<<<9, 0>>, <<10, 0>>>>, <<<<9, 30>>, <<10, 30, 0>>>>, <<<<10, 0, 0>>, <<11, 0>>>> }

SingleRequest(h, d, tp, n, pw) ==
    [op |-> "createSingle", hall_id |-> h, date |-> d, start_time |-> tp[1],
     end_time |-> tp[2], requester_name |-> n, edit_password |-> pw,
     edit_password_hint |-> IF pw = "" THEN "" ELSE "hint"]

SingleRequests ==
    { SingleRequest(1, Day1, tp, "kim", "") : tp \in TimePairs }
    \cup
    { SingleRequest(2, Day1, <<<<9, 30>>, <<10, 30, 0>>>>, "kim", ""),
      SingleRequest(1, Day1, <<<<10, 0, 0>>, <<11, 0>>>>, "kim", "pw01") }
    \cup
    { SingleRequest(0, Day1, <<<<9, 0>>, <<10, 0>>>>, "kim", ""),
      SingleRequest(9, Day1, <<<<9, 0>>, <<10, 0>>>>, "kim", ""),
      SingleRequest(1, Day1, <<<<9, 0>>, <<10, 0>>>>, "", ""),
      SingleRequest(1, Day1, <<<<9>>, <<10, 0>>>>, "kim", ""),
      SingleRequest(1, Day1, <<<<10, 0>>, <<9, 0>>>>, "kim", ""),
      SingleRequest(1, Day1, <<<<10, 0>>, <<10, 0, 0>>>>, "kim", ""),
      SingleRequest(1, Day1, <<<<10, 0>>, <<11, 0>>>>, "kim", "abc") }

(***************************************************************************)
(* POST /api/bookings : create one booking.                                *)
(***************************************************************************)
\* Mutant: the row of a single booking is marked as an occurrence of a series.
SingleRowMarkedSeries(r) ==
    [id |-> 0, hall_id |-> r.hall_id, date |-> r.date,
     start_time |-> normTime(r.start_time), end_time |-> normTime(r.end_time),
     requester_name |-> r.requester_name, group_name |-> "",
     is_series |-> TRUE, series_id |-> 0,
     edit_password_hash |->
        IF Len(r.edit_password) > 0 THEN BcryptHash(r.edit_password) ELSE NoHash,
     edit_password_hint |-> r.edit_password_hint]

SingleRow(r) ==
    [id |-> 0, hall_id |-> r.hall_id, date |-> r.date,
     start_time |-> normTime(r.start_time), end_time |-> normTime(r.end_time),
     requester_name |-> r.requester_name, group_name |-> "",
     is_series |-> FALSE, series_id |-> 0,
     edit_password_hash |->
        IF Len(r.edit_password) > 0 THEN BcryptHash(r.edit_password) ELSE NoHash,
     edit_password_hint |-> r.edit_password_hint]

\* Postgres error code of an insert of rows next to table, 0 when it commits.
InsertError(table, rows) ==
    IF ~UniqueOk(table, rows) THEN 23505
    ELSE IF ~ForeignKeyOk(rows) THEN 23503
    ELSE 0

mapPgError(code) ==
    IF code = 23505 THEN "duplicate key"
    ELSE IF code = 23503 THEN "hall not found"
    ELSE "store error"

\* message of the store for a failed write, as it stands in error.message
PgMessage(code) ==
    IF code = 23505 THEN "pg duplicate key"
    ELSE IF code = 23503 THEN "pg foreign key"
    ELSE "pg error"

\* Answer of POST up to the point where it inserts: status 0 means that every
\* check has passed.
SingleChecks(table, r) ==
    LET start == normTime(r.start_time)
        end == normTime(r.end_time)
    IN  IF r.hall_id = 0 \/ r.date = 0 \/ r.start_time = <<>> \/ r.end_time = <<>>
           \/ r.requester_name = ""
        THEN Response(400, "missing field")
        ELSE IF start = InvalidTime \/ end = InvalidTime
        THEN Response(500, "time format")
        ELSE IF end <= start
        THEN Response(400, "end not after start")
        ELSE IF hasTimeOverlap(table, r.hall_id, r.date, start, end, 0)
        THEN Response(400, "overlap")
        ELSE IF Len(r.edit_password) > 0 /\ Len(r.edit_password) < MinPasswordLength
        THEN Response(400, "password too short")
        ELSE Response(0, "none")

\* Answer of the insert of POST on the table as it stands when it runs.
SingleInsert(table, r, newId) ==
    LET row == SingleRow(r)
    IN  IF InsertError(table, <<row>>) # 0
        THEN Response(400, mapPgError(InsertError(table, <<row>>)))
        ELSE [Response(200, "none") EXCEPT !.row = [row EXCEPT !.id = newId]]

SingleResponse(table, r, newId) ==
    IF SingleChecks(table, r).status # 0
    THEN SingleChecks(table, r)
    ELSE SingleInsert(table, r, newId)

CreateSingle(r) ==
    \E out \in {SingleResponse(bookings, r, nextBookingId)} :
        /\ Idle
        /\ out.status = 200 => nextBookingId <= MaxBookings
        /\ req' = r
        /\ resp' = out
        /\ before' = Snapshot
        /\ IF out.status = 200
           THEN /\ bookings' = bookings \cup {out.row}
                /\ nextBookingId' = nextBookingId + 1
           ELSE UNCHANGED <<bookings, nextBookingId>>
        /\ UNCHANGED <<series, nextSeriesId>>

(***************************************************************************)
(* POST /api/bookings/series : create a recurring series                   *)
(* (freq WEEKLY, FORTNIGHTLY or MONTHLY; occurrences and until optional).  *)
(***************************************************************************)
RECURSIVE StepBack(_, _)
\* while (nd.getDate() < dom) nd.setDate(nd.getDate() - 1)
StepBack(nd, dom) == IF nd[3] < dom THEN StepBack(AddDays(nd, 0 - 1), dom) ELSE nd

\* Mutant: a fortnight is taken for a week.
addUnitFortnightAsWeek(freq, d) ==
    IF freq = "WEEKLY" THEN AddDays(d, 7)
    ELSE IF freq = "FORTNIGHTLY" THEN AddDays(d, 7)
    ELSE IF freq = "MONTHLY" THEN StepBack(SetNextMonth(d), d[3])
    ELSE d

addUnit(freq, d) ==
    IF freq = "WEEKLY" THEN AddDays(d, 7)
    ELSE IF freq = "FORTNIGHTLY" THEN AddDays(d, 14)
    ELSE IF freq = "MONTHLY" THEN StepBack(SetNextMonth(d), d[3])
    ELSE d

\* Date of the until field, <<>> when the field is absent.
untilDateOf(r) == IF r.until # 0 THEN ParseDate(r.until) ELSE <<>>

\* Mutant: without occurrences the loop runs to the cap meant for until.
maxOccWithoutDefault(r) ==
    IF r.occurrences > 0 THEN r.occurrences ELSE UntilOccurrences

maxOccOf(r) ==
    IF r.occurrences > 0 THEN r.occurrences
    ELSE IF untilDateOf(r) # <<>> THEN UntilOccurrences
    ELSE DefaultOccurrences

\* One pass of the for loop on the loop state st = [cur, i, dates, done]:
\* the test i < maxOcc, the push, the step and the two breaks.
LoopBody(freq, untilDate, maxOcc, st) ==
    IF st.done THEN st
    ELSE IF ~(st.i < maxOcc) THEN [st EXCEPT !.done = TRUE]
    ELSE LET pushed == Append(st.dates, FormatDate(st.cur))
             next == addUnit(freq, st.cur)
         IN  IF untilDate # <<>> /\ DateAfter(next, untilDate)
             THEN [st EXCEPT !.dates = pushed, !.done = TRUE]
             ELSE IF st.i > SafetyGuard
             THEN [st EXCEPT !.cur = next, !.dates = pushed, !.done = TRUE]
             ELSE [st EXCEPT !.cur = next, !.dates = pushed, !.i = st.i + 1]

RECURSIVE ExpandLoop(_, _, _, _, _)
\* n passes of the loop from state st, split in halves.
ExpandLoop(freq, untilDate, maxOcc, st, n) ==
    IF st.done \/ n = 0 THEN st
    ELSE IF n = 1 THEN LoopBody(freq, untilDate, maxOcc, st)
    ELSE LET half == ExpandLoop(freq, untilDate, maxOcc, st, n \div 2)
         IN  ExpandLoop(freq, untilDate, maxOcc, half, n - n \div 2)

\* The list `dates` of the handler: the loop runs at most SafetyGuard + 2
\* passes before the guard i > 500 breaks it, and one more test ends it.
OccurrenceDates(r) ==
    ExpandLoop(r.freq, untilDateOf(r), maxOccOf(r),
               [cur |-> ParseDate(r.start_date), i |-> 0, dates |-> <<>>, done |-> FALSE],
               SafetyGuard + 3).dates

RECURSIVE SortedSeq(_)
\* Ascending list of a finite set of numbers.
SortedSeq(S) ==
    IF S = {} THEN <<>>
    ELSE LET m == CHOOSE x \in S : \A y \in S : x <= y
         IN  <<m>> \o SortedSeq(S \ {m})

uniqueWeekdays(dates) == SortedSeq({GetDay(ParseDate(dates[i])) : i \in 1..Len(dates)})

\* Mutant: the series row ends on its first date.
SeriesRowEndsAtStart(r, dates, id) ==
    [id |-> id, hall_id |-> r.hall_id, start_date |-> dates[1],
     end_date |-> dates[1],
     start_time |-> normTime(r.start_time), end_time |-> normTime(r.end_time),
     interval |-> IF r.freq = "FORTNIGHTLY" THEN 2 ELSE 1,
     byweekday |-> uniqueWeekdays(dates),
     requester_name |-> r.applicant, group_name |-> r.title]

SeriesRow(r, dates, id) ==
    [id |-> id, hall_id |-> r.hall_id, start_date |-> dates[1],
     end_date |-> dates[Len(dates)],
     start_time |-> normTime(r.start_time), end_time |-> normTime(r.end_time),
     interval |-> IF r.freq = "FORTNIGHTLY" THEN 2 ELSE 1,
     byweekday |-> uniqueWeekdays(dates),
     requester_name |-> r.applicant, group_name |-> r.title]

\* Mutant: the child rows are stored as plain bookings, without the series.
ChildRowsUnlinked(r, dates, series_id) ==
    [i \in 1..Len(dates) |->
        [id |-> 0, hall_id |-> r.hall_id, date |-> dates[i],
         start_time |-> normTime(r.start_time), end_time |-> normTime(r.end_time),
         requester_name |-> r.applicant, group_name |-> r.title,
         is_series |-> FALSE, series_id |-> 0,
         edit_password_hash |-> NoHash, edit_password_hint |-> ""]]

\* Mutant: the child rows refer to the series and are not marked is_series.
ChildRowsUnflagged(r, dates, series_id) ==
    [i \in 1..Len(dates) |->
        [id |-> 0, hall_id |-> r.hall_id, date |-> dates[i],
         start_time |-> normTime(r.start_time), end_time |-> normTime(r.end_time),
         requester_name |-> r.applicant, group_name |-> r.title,
         is_series |-> FALSE, series_id |-> series_id,
         edit_password_hash |-> NoHash, edit_password_hint |-> ""]]

ChildRows(r, dates, series_id) ==
    [i \in 1..Len(dates) |->
        [id |-> 0, hall_id |-> r.hall_id, date |-> dates[i],
         start_time |-> normTime(r.start_time), end_time |-> normTime(r.end_time),
         requester_name |-> r.applicant, group_name |-> r.title,
         is_series |-> TRUE, series_id |-> series_id,
         edit_password_hash |-> NoHash, edit_password_hint |-> ""]]

\* Mutant: the hall is not looked up.
HallExistsAlways(hallId) == TRUE

\* halls.select("id").eq("id", hallId).maybeSingle() returns a row
HallExists(hallId) == hallId \in Halls

\* Answer of the handler up to the point where it starts writing:
\* status 0 means that every check has passed.
SeriesChecks(r) ==
    IF r.hall_id = 0 \/ r.start_date = 0 \/ r.start_time = <<>> \/ r.end_time = <<>>
       \/ r.freq = ""
    THEN Response(400, "missing field")
    ELSE IF r.title = ""
    THEN Response(400, "missing group name")
    ELSE IF normTime(r.start_time) = InvalidTime \/ normTime(r.end_time) = InvalidTime
    THEN Response(500, "time format")
    ELSE IF toMinutes(normTime(r.end_time)) <= toMinutes(normTime(r.start_time))
    THEN Response(400, "end not after start")
    ELSE IF ~HallExists(r.hall_id)
    THEN Response(400, "invalid hall")
    ELSE IF Len(OccurrenceDates(r)) = 0
    THEN Response(400, "no occurrences")
    ELSE Response(0, "none")

CreateSeries(r) ==
    \E checks \in {SeriesChecks(r)} :
        /\ Idle
        /\ req' = r
        /\ before' = Snapshot
        /\ IF checks.status # 0
           THEN /\ resp' = checks
                /\ UNCHANGED <<bookings, series, nextBookingId, nextSeriesId>>
           ELSE \E dates \in {OccurrenceDates(r)} :
                \E rows \in {ChildRows(r, dates, nextSeriesId)} :
                    /\ nextSeriesId <= MaxSeries
                    /\ series' = series \cup {SeriesRow(r, dates, nextSeriesId)}
                    /\ nextSeriesId' = nextSeriesId + 1
                    /\ IF InsertError(bookings, rows) # 0
                       THEN /\ resp' = Response(400, "bookings insert failed")
                            /\ UNCHANGED <<bookings, nextBookingId>>
                       ELSE /\ nextBookingId + Len(dates) - 1 <= MaxBookings
                            /\ bookings' = bookings \cup WithIds(rows, nextBookingId)
                            /\ nextBookingId' = nextBookingId + Len(dates)
                            /\ resp' = [Response(200, "none") EXCEPT
                                          !.row = [id |-> nextSeriesId], !.dates = dates]

SeriesRequest(h, sd, tp, t, f, n, u) ==
    [op |-> "createSeries", hall_id |-> h, start_date |-> sd, start_time |-> tp[1],
     end_time |-> tp[2], title |-> t, applicant |-> "", freq |-> f,
     occurrences |-> n, until |-> u]

SeriesRequests ==
    { SeriesRequest(1, Day1, tp, "choir", "WEEKLY", 2, 0) :
        tp \in {<<<<9, 0>>, <<10, 0>>>>, <<<<9, 30>>, <<10, 30, 0>>>>} }
    \cup
    { SeriesRequest(1, Day1, <<<<9, 30>>, <<10, 30, 0>>>>, "choir", "WEEKLY", 0, Day2),
      SeriesRequest(1, Day1, <<<<9, 0>>, <<10, 0>>>>, "choir", "FORTNIGHTLY", 1, 0),
      SeriesRequest(1, MonthEnd, <<<<9, 0>>, <<10, 0>>>>, "choir", "MONTHLY", 2, 0) }
    \cup
    { SeriesRequest(0, Day1, <<<<9, 0>>, <<10, 0>>>>, "choir", "WEEKLY", 1, 0),
      SeriesRequest(9, Day1, <<<<9, 0>>, <<10, 0>>>>, "choir", "WEEKLY", 1, 0),
      SeriesRequest(1, Day1, <<<<9, 0>>, <<10, 0>>>>, "", "WEEKLY", 1, 0),
      SeriesRequest(1, Day1, <<<<9>>, <<10, 0>>>>, "choir", "WEEKLY", 1, 0),
      SeriesRequest(1, Day1, <<<<10, 0>>, <<10, 0, 30>>>>, "choir", "WEEKLY", 1, 0) }

(***************************************************************************)
(* PATCH /api/bookings/:id : update one booking.                           *)
(***************************************************************************)
\* A patch field is absent when it is 0, "" or <<>> (undefined, null or "");
\* a time field stripped from the patch is Undefined.
Undefined == 0 - 2

normalizeTimeToHHMMSS(t) == IF t = <<>> THEN Undefined ELSE normTime(t)

\* The object `updates`: each field holds its new value, or 0 / "" when it
\* has been stripped from the patch.
UpdatesOf(r) ==
    [hall_id |-> r.hall_id, date |-> r.date,
     start_time |-> normalizeTimeToHHMMSS(r.start_time),
     end_time |-> normalizeTimeToHHMMSS(r.end_time),
     requester_name |-> r.requester_name]

\* Mutant: an empty patch is not recognised.
NoFieldsNever(u) == FALSE

NoFields(u) ==
    u.hall_id = 0 /\ u.date = 0 /\ u.start_time = Undefined /\ u.end_time = Undefined
    /\ u.requester_name = ""

\* Mutant: the overlap check keeps the stored hall and date.
EffectiveStoredPlace(u, existing) ==
    [hall_id |-> existing.hall_id,
     date |-> existing.date,
     start_time |-> IF u.start_time # Undefined THEN u.start_time ELSE existing.start_time,
     end_time |-> IF u.end_time # Undefined THEN u.end_time ELSE existing.end_time]

\* updates overlaid on the stored row
Effective(u, existing) ==
    [hall_id |-> IF u.hall_id # 0 THEN u.hall_id ELSE existing.hall_id,
     date |-> IF u.date # 0 THEN u.date ELSE existing.date,
     start_time |-> IF u.start_time # Undefined THEN u.start_time ELSE existing.start_time,
     end_time |-> IF u.end_time # Undefined THEN u.end_time ELSE existing.end_time]

\* Mutant: the requester name of the patch is written even when it is empty.
PatchedWithoutStrip(u, row) ==
    [row EXCEPT !.hall_id = IF u.hall_id # 0 THEN u.hall_id ELSE @,
                !.date = IF u.date # 0 THEN u.date ELSE @,
                !.start_time = IF u.start_time # Undefined THEN u.start_time ELSE @,
                !.end_time = IF u.end_time # Undefined THEN u.end_time ELSE @,
                !.requester_name = u.requester_name]

\* the row after .update(updates)
Patched(u, row) ==
    [row EXCEPT !.hall_id = IF u.hall_id # 0 THEN u.hall_id ELSE @,
                !.date = IF u.date # 0 THEN u.date ELSE @,
                !.start_time = IF u.start_time # Undefined THEN u.start_time ELSE @,
                !.end_time = IF u.end_time # Undefined THEN u.end_time ELSE @,
                !.requester_name = IF u.requester_name # "" THEN u.requester_name ELSE @]

\* new Date(`${d}T${t}`): both instants compared lie on the same day d, so the
\* second of the day orders them.
Instant(d, t) == (t \div 10000) * 3600 + ((t \div 100) % 100) * 60 + (t % 100)

\* Mutant: the order is checked only when the patch holds both times.
OrderViolatedPatchOnly(u, eff) ==
    /\ u.start_time # Undefined
    /\ u.end_time # Undefined
    /\ Instant(eff.date, eff.end_time) <= Instant(eff.date, eff.start_time)

\* Mutant: an end equal to the start is let through.
OrderViolatedStrictly(u, eff) ==
    Instant(eff.date, eff.end_time) < Instant(eff.date, eff.start_time)

\* if (e <= s) on the effective start and end
OrderViolated(u, eff) ==
    Instant(eff.date, eff.end_time) <= Instant(eff.date, eff.start_time)

\* Answer of PATCH up to the point where it writes: status 0 means that every
\* check has passed.
UpdateChecks(table, r) ==
    LET u == UpdatesOf(r)
        found == {b \in table : b.id = r.id}
    IN  IF u.start_time = InvalidTime \/ u.end_time = InvalidTime
        THEN Response(400, "time format")
        ELSE IF NoFields(u)
        THEN Response(400, "no fields to update")
        ELSE IF found = {}
        THEN Response(400, "read error")
        ELSE LET existing == CHOOSE b \in found : TRUE
                 eff == Effective(u, existing)
             IN  IF OrderViolated(u, eff)
                 THEN Response(400, "end not after start")
                 ELSE IF hasTimeOverlap(table, eff.hall_id, eff.date, eff.start_time,
                                        eff.end_time, r.id)
                 THEN Response(400, "overlap")
                 ELSE Response(0, "none")

\* Mutant: a row that holds a secret hash is not written, as the request
\* carries no secret.
UpdateWriteGated(table, r) ==
    LET u == UpdatesOf(r)
        found == {b \in table : b.id = r.id}
    IN  IF found = {}
        THEN Response(404, "not found")
        ELSE LET existing == CHOOSE b \in found : TRUE
                 row == Patched(u, existing)
             IN  IF existing.edit_password_hash # NoHash
                 THEN Response(403, "password required")
                 ELSE IF InsertError(table \ {existing}, <<row>>) # 0
                 THEN Response(400, PgMessage(InsertError(table \ {existing}, <<row>>)))
                 ELSE [Response(200, "none") EXCEPT !.row = row]

\* Answer of .update(updates).eq("id", id) on the table as it stands when it
\* runs: a failed write is thrown and answered with the store's message.
UpdateWrite(table, r) ==
    LET u == UpdatesOf(r)
        found == {b \in table : b.id = r.id}
    IN  IF found = {}
        THEN Response(404, "not found")
        ELSE LET existing == CHOOSE b \in found : TRUE
                 row == Patched(u, existing)
             IN  IF InsertError(table \ {existing}, <<row>>) # 0
                 THEN Response(400, PgMessage(InsertError(table \ {existing}, <<row>>)))
                 ELSE [Response(200, "none") EXCEPT !.row = row]

UpdateResponse(table, r) ==
    IF UpdateChecks(table, r).status # 0
    THEN UpdateChecks(table, r)
    ELSE UpdateWrite(table, r)

\* Mutant: the update also removes the series rows.
UpdateClearingSeries(r) ==
    \E out \in {UpdateResponse(bookings, r)} :
        /\ Idle
        /\ req' = r
        /\ resp' = out
        /\ before' = Snapshot
        /\ bookings' = IF out.status = 200
                       THEN {b \in bookings : b.id # r.id} \cup {out.row}
                       ELSE bookings
        /\ series' = {}
        /\ UNCHANGED <<nextBookingId, nextSeriesId>>

Update(r) ==
    \E out \in {UpdateResponse(bookings, r)} :
        /\ Idle
        /\ req' = r
        /\ resp' = out
        /\ before' = Snapshot
        /\ bookings' = IF out.status = 200
                       THEN {b \in bookings : b.id # r.id} \cup {out.row}
                       ELSE bookings
        /\ UNCHANGED <<series, nextBookingId, nextSeriesId>>

UpdateRequest(id, h, d, st, et, n) ==
    [op |-> "update", id |-> id, hall_id |-> h, date |-> d, start_time |-> st,
     end_time |-> et, requester_name |-> n]

\* Updates and deletes address the first booking ever stored (identifier 1), or
\* an identifier that no booking has.
UnknownId == MaxBookings + 1

UpdateRequests ==
    { UpdateRequest(1, h, 0, <<>>, <<>>, "") : h \in {2, 9} }
    \cup
    { UpdateRequest(1, 0, 0, <<>>, et, "") : et \in {<<10, 30>>, <<9, 0, 0>>, <<9>>} }
    \cup
    { UpdateRequest(1, 0, 0, <<>>, <<>>, n) : n \in {"", "lee"} }
    \cup
    { UpdateRequest(1, 0, Day2, <<>>, <<>>, ""),
      UpdateRequest(1, 0, 0, <<11, 0>>, <<>>, ""),
      UpdateRequest(UnknownId, 0, 0, <<>>, <<>>, "lee"),
      UpdateRequest(UnknownId, 0, 0, <<>>, <<>>, "") }

(***************************************************************************)
(* DELETE /api/bookings/:id[?mode=series] : cancel one booking or a series.*)
(***************************************************************************)
\* Mutant: the supplied secret is not compared with the stored hash.
verifyWithoutCompare(table, bookingId, edit_password) ==
    LET found == {b \in table : b.id = bookingId}
    IN  IF edit_password = ""
        THEN "password required"
        ELSE IF found = {}
        THEN "booking not found"
        ELSE IF (CHOOSE b \in found : TRUE).edit_password_hash = NoHash
        THEN "not password protected"
        ELSE "ok"

verifyBookingPassword(table, bookingId, edit_password) ==
    LET found == {b \in table : b.id = bookingId}
    IN  IF edit_password = ""
        THEN "password required"
        ELSE IF found = {}
        THEN "booking not found"
        ELSE IF (CHOOSE b \in found : TRUE).edit_password_hash = NoHash
        THEN "not password protected"
        ELSE IF ~BcryptCompare(edit_password, (CHOOSE b \in found : TRUE).edit_password_hash)
        THEN "password mismatch"
        ELSE "ok"

\* Mutant: every row is taken for an occurrence of a series.
IsSeriesChildAlways(row) == TRUE

\* if (!row?.series_id) is false: the row refers to a series
IsSeriesChild(row) == row.series_id # 0

\* .delete().eq("series_id", series_id)
SeriesDeleted(table, series_id) == {b \in table : b.series_id # series_id}

\* Mutant: the delete also removes the rows that share the series reference
\* of the addressed row.
SingleDeletedWithSeries(table, id) ==
    {b \in table : \A t \in table : t.id = id => b.series_id # t.series_id}

\* .delete().eq("id", id)
SingleDeleted(table, id) == {b \in table : b.id # id}

Delete(r) ==
    \E verify \in {verifyBookingPassword(bookings, r.id, r.edit_password)} :
    \E found \in {{b \in bookings : b.id = r.id}} :
        /\ Idle
        /\ req' = r
        /\ before' = Snapshot
        /\ UNCHANGED <<series, nextBookingId, nextSeriesId>>
        /\ IF verify # "ok"
           THEN /\ resp' = Response(403, verify)
                /\ UNCHANGED bookings
           ELSE IF r.mode = "series"
           THEN IF found = {}
                THEN /\ resp' = Response(400, "read error")
                     /\ UNCHANGED bookings
                ELSE IF ~IsSeriesChild(CHOOSE b \in found : TRUE)
                THEN /\ resp' = Response(400, "not a series")
                     /\ UNCHANGED bookings
                ELSE /\ resp' = Response(200, "none")
                     /\ bookings' = SeriesDeleted(bookings,
                                                   (CHOOSE b \in found : TRUE).series_id)
           ELSE /\ resp' = Response(200, "none")
                /\ bookings' = SingleDeleted(bookings, r.id)

DeleteRequest(id, m, pw) == [op |-> "delete", id |-> id, mode |-> m, edit_password |-> pw]

DeleteRequests ==
    { DeleteRequest(1, m, pw) : m \in {"single", "series"}, pw \in {"", "pw01", "pw02"} }
    \cup
    { DeleteRequest(UnknownId, "single", pw) : pw \in {"", "pw01"} }

(***************************************************************************)
(* The response has been returned: the server waits for the next request.  *)
(***************************************************************************)
Return ==
    /\ ~Idle
    /\ req' = NoReq
    /\ resp' = NoResp
    /\ before' = NoSnapshot
    /\ UNCHANGED <<bookings, series, nextBookingId, nextSeriesId>>

Next ==
    \/ \E r \in SingleRequests : CreateSingle(r)
    \/ \E r \in SeriesRequests : CreateSeries(r)
    \/ \E r \in UpdateRequests : Update(r)
    \/ \E r \in DeleteRequests : Delete(r)
    \/ Return

Spec == Init /\ [][Next]_vars

(***************************************************************************)
(* Creation alone: single and series creates, the series requests extended *)
(* by a monthly series that changes weekday, an until date before the      *)
(* start date and a frequency the handler does not know.                   *)
(***************************************************************************)
MoreSeriesRequests ==
    { SeriesRequest(1, Day1, <<<<9, 30>>, <<10, 30, 0>>>>, "choir", "MONTHLY", 2, 0),
      SeriesRequest(1, Day2, <<<<9, 0>>, <<10, 0>>>>, "choir", "WEEKLY", 0, Day1),
      SeriesRequest(1, Day1, <<<<9, 0>>, <<10, 0>>>>, "choir", "DAILY", 1, 0),
      SeriesRequest(2, Day1, <<<<9, 0>>, <<10, 0>>>>, "choir", "DAILY", 0, 0) }

NextCreate ==
    \/ \E r \in SingleRequests : CreateSingle(r)
    \/ \E r \in SeriesRequests \cup MoreSeriesRequests : CreateSeries(r)
    \/ Return

SpecCreate == Init /\ [][NextCreate]_vars

(***************************************************************************)
(* Expansion of a recurrence taken alone: the request is drawn from        *)
(* ExpandRequests and the handler's list `dates` is computed from it.      *)
(***************************************************************************)
ExpandRequests ==
    { [op |-> "expand", hall_id |-> 1, start_date |-> sd, start_time |-> <<9, 0>>,
       end_time |-> <<10, 0>>, title |-> "choir", applicant |-> "", freq |-> f,
       occurrences |-> n, until |-> u, byweekday |-> w] :
         sd \in {20250106, 20250128, 20250129, 20250130, 20250131, 20240131,
                 20250331, 20251231},
         f \in {"WEEKLY", "FORTNIGHTLY", "MONTHLY", "DAILY"},
         n \in {0, 1, 4},
         u \in {0, 20250120, 20250430, 20350101},
         w \in {{}, {1, 3}} }

InitExpand ==
    /\ bookings = {}
    /\ series = {}
    /\ nextBookingId = 1
    /\ nextSeriesId = 1
    /\ req \in ExpandRequests
    /\ resp = NoResp
    /\ before = NoSnapshot

Expand ==
    /\ req.op = "expand"
    /\ resp = NoResp
    /\ resp' = [Response(200, "none") EXCEPT !.dates = OccurrenceDates(req)]
    /\ UNCHANGED <<bookings, series, nextBookingId, nextSeriesId, req, before>>

NextExpand == Expand

SpecExpand == InitExpand /\ [][NextExpand]_vars

(***************************************************************************)
(* The pure functions on their own: the overlap query on two intervals and *)
(* the time normalisers on text.  A text is a sequence of characters.      *)
(***************************************************************************)
MaxTextLen == 9

TimeChars == {"0", ":", " "}

IsDigit(c) == c \in {"0", "1", "2", "3", "4", "5", "6", "7", "8", "9"}

\* /^\d{2}:\d{2}$/
MatchesHHMM(s) ==
    /\ Len(s) = 5
    /\ IsDigit(s[1]) /\ IsDigit(s[2]) /\ s[3] = ":"
    /\ IsDigit(s[4]) /\ IsDigit(s[5])

\* /^\d{2}:\d{2}:\d{2}$/
MatchesHHMMSS(s) ==
    /\ Len(s) = 8
    /\ IsDigit(s[1]) /\ IsDigit(s[2]) /\ s[3] = ":"
    /\ IsDigit(s[4]) /\ IsDigit(s[5]) /\ s[6] = ":"
    /\ IsDigit(s[7]) /\ IsDigit(s[8])

Returned(s) == [ok |-> TRUE, value |-> s]

\* throw new Error("Invalid time format")
Thrown == [ok |-> FALSE, value |-> <<>>]

\* the value undefined of the update normaliser
UndefinedText == [ok |-> TRUE, value |-> <<>>]

\* normTime of the create handler, on text
normTimeText(s) ==
    IF MatchesHHMM(s) THEN Returned(s \o <<":", "0", "0">>)
    ELSE IF MatchesHHMMSS(s) THEN Returned(s)
    ELSE Thrown

\* normalizeTimeToHHMMSS of the update handler, on text
normalizeTimeToHHMMSSText(s) ==
    IF s = <<>> THEN UndefinedText
    ELSE IF MatchesHHMM(s) THEN Returned(s \o <<":", "0", "0">>)
    ELSE IF MatchesHHMMSS(s) THEN Returned(s)
    ELSE Thrown

RECURSIVE trimStart(_)
trimStart(s) == IF s # <<>> /\ Head(s) = " " THEN trimStart(Tail(s)) ELSE s

RECURSIVE trimEnd(_)
trimEnd(s) ==
    IF s # <<>> /\ s[Len(s)] = " " THEN trimEnd(SubSeq(s, 1, Len(s) - 1)) ELSE s

\* String.prototype.trim
trim(s) == trimEnd(trimStart(s))

\* normalizeHm of the series handler, on text
normalizeHmText(t) ==
    LET s == trim(t)
    IN  IF MatchesHHMMSS(s) THEN Returned(s)
        ELSE IF MatchesHHMM(s) THEN Returned(s \o <<":", "0", "0">>)
        ELSE Thrown

Texts == UNION {[1..n -> TimeChars] : n \in 0..MaxTextLen}

NormalizeRequests == {[op |-> "normalize", text |-> t] : t \in Texts}

PureTimes == {<<9, 0>>, <<9, 30>>, <<10, 0>>, <<10, 30>>}

Interval(id, h, d, st, et) ==
    [id |-> id, hall_id |-> h, date |-> d,
     start_time |-> normTime(st), end_time |-> normTime(et)]

OverlapRequests ==
    {[op |-> "overlap", a |-> Interval(1, ha, da, sa, ea), b |-> Interval(2, hb, db, sb, eb)] :
        ha \in Halls, hb \in Halls, da \in {Day1, Day2}, db \in {Day1, Day2},
        sa \in PureTimes, ea \in PureTimes, sb \in PureTimes, eb \in PureTimes}

InitPure ==
    /\ bookings = {}
    /\ series = {}
    /\ nextBookingId = 1
    /\ nextSeriesId = 1
    /\ req \in NormalizeRequests \cup OverlapRequests
    /\ resp = NoResp
    /\ before = NoSnapshot

\* x against the stored y: without an id to leave out, as create asks it,
\* and with x's own id left out, as update asks it
Asks(x, y) ==
    [create |-> hasTimeOverlap({y}, x.hall_id, x.date, x.start_time, x.end_time, 0),
     update |-> hasTimeOverlap({y}, x.hall_id, x.date, x.start_time, x.end_time, x.id)]

CheckOverlap ==
    /\ req.op = "overlap"
    /\ resp = NoResp
    /\ resp' = [Response(200, "none") EXCEPT
                   !.row = [ab |-> Asks(req.a, req.b), ba |-> Asks(req.b, req.a)]]
    /\ UNCHANGED <<bookings, series, nextBookingId, nextSeriesId, req, before>>

\* the result and the result of normalising the result again
Twice(once, again) == [once |-> once, twice |-> IF once.ok THEN again ELSE once]

Normalize ==
    /\ req.op = "normalize"
    /\ resp = NoResp
    /\ resp' = [Response(200, "none") EXCEPT
                   !.row = [create |-> Twice(normTimeText(req.text),
                                             normTimeText(normTimeText(req.text).value)),
                            update |-> Twice(normalizeTimeToHHMMSSText(req.text),
                                             normalizeTimeToHHMMSSText(normalizeTimeToHHMMSSText(req.text).value)),
                            series |-> Twice(normalizeHmText(req.text),
                                             normalizeHmText(normalizeHmText(req.text).value))]]
    /\ UNCHANGED <<bookings, series, nextBookingId, nextSeriesId, req, before>>

NextPure == CheckOverlap \/ Normalize

SpecPure == InitPure /\ [][NextPure]_vars

(***************************************************************************)
(* Concurrent requests.  Every handler is a sequence of awaited calls to   *)
(* the store, and the calls of two requests interleave.  Here req, resp    *)
(* and before hold one value per client: req[c] is the request client c    *)
(* has sent, resp[c] its answer (NoResp while the handler still runs) and  *)
(* before[c] the tables as they stood when the handler ran its checks.     *)
(***************************************************************************)
Clients == {1, 2}

\* The request of client c has passed its checks and has not written yet.
InFlight(c) == req[c] # NoReq /\ resp[c] = NoResp

\* the row an in-flight single create is about to insert
PendingRows(c) ==
    {SingleRow(req[d]) : d \in {x \in Clients \ {c} : InFlight(x) /\ req[x].op = "createSingle"}}

\* Mutant: the overlap query also sees the rows that requests in flight are
\* about to insert, as it would if check and insert were one transaction.
VisibleRowsWithPending(table, pending) == table \cup pending

\* Rows the overlap query returns rows from: the committed rows of the table.
VisibleRows(table, pending) == table

RaceSingleRequests ==
    { SingleRequest(1, Day1, tp, "kim", "") : tp \in TimePairs }
    \cup
    { SingleRequest(1, Day1, <<<<10, 0>>, <<9, 0>>>>, "kim", "") }

RaceUpdateRequests ==
    { UpdateRequest(1, 0, 0, <<9, 30>>, <<10, 30>>, ""),
      UpdateRequest(1, 0, 0, <<9, 0>>, <<10, 0>>, ""),
      UpdateRequest(1, 0, 0, <<>>, <<9, 0>>, "") }

RaceSeriesRequests ==
    { SeriesRequest(1, Day1, <<<<9, 30>>, <<10, 30, 0>>>>, "choir", "WEEKLY", 1, 0),
      SeriesRequest(1, Day1, <<<<9>>, <<10, 0>>>>, "choir", "WEEKLY", 1, 0) }

InitRace ==
    /\ bookings = {}
    /\ series = {}
    /\ nextBookingId = 1
    /\ nextSeriesId = 1
    /\ req = [c \in Clients |-> NoReq]
    /\ resp = [c \in Clients |-> NoResp]
    /\ before = [c \in Clients |-> NoSnapshot]

\* POST /api/bookings up to the overlap query and the password check
RaceCheckSingle(c, r) ==
    /\ req[c] = NoReq
    /\ req' = [req EXCEPT ![c] = r]
    /\ before' = [before EXCEPT ![c] = Snapshot]
    /\ resp' = [resp EXCEPT
                  ![c] = SingleChecks(VisibleRows(bookings, PendingRows(c)), r)]
    /\ UNCHANGED <<bookings, series, nextBookingId, nextSeriesId>>

\* POST /api/bookings : the insert
RaceWriteSingle(c) ==
    /\ InFlight(c)
    /\ req[c].op = "createSingle"
    /\ \E out \in {SingleInsert(bookings, req[c], nextBookingId)} :
        /\ out.status = 200 => nextBookingId <= MaxBookings
        /\ resp' = [resp EXCEPT ![c] = out]
        /\ IF out.status = 200
           THEN /\ bookings' = bookings \cup {out.row}
                /\ nextBookingId' = nextBookingId + 1
           ELSE UNCHANGED <<bookings, nextBookingId>>
        /\ UNCHANGED <<series, nextSeriesId, req, before>>

\* PATCH /api/bookings/:id up to the overlap query
RaceCheckUpdate(c, r) ==
    /\ req[c] = NoReq
    /\ req' = [req EXCEPT ![c] = r]
    /\ before' = [before EXCEPT ![c] = Snapshot]
    /\ resp' = [resp EXCEPT
                  ![c] = UpdateChecks(VisibleRows(bookings, PendingRows(c)), r)]
    /\ UNCHANGED <<bookings, series, nextBookingId, nextSeriesId>>

\* PATCH /api/bookings/:id : the update
RaceWriteUpdate(c) ==
    /\ InFlight(c)
    /\ req[c].op = "update"
    /\ \E out \in {UpdateWrite(bookings, req[c])} :
        /\ resp' = [resp EXCEPT ![c] = out]
        /\ bookings' = IF out.status = 200
                       THEN {b \in bookings : b.id # req[c].id} \cup {out.row}
                       ELSE bookings
        /\ UNCHANGED <<series, nextBookingId, nextSeriesId, req, before>>

\* POST /api/bookings/series up to the hall lookup and the expansion
RaceCheckSeries(c, r) ==
    /\ req[c] = NoReq
    /\ req' = [req EXCEPT ![c] = r]
    /\ before' = [before EXCEPT ![c] = Snapshot]
    /\ resp' = [resp EXCEPT ![c] = SeriesChecks(r)]
    /\ UNCHANGED <<bookings, series, nextBookingId, nextSeriesId>>

\* POST /api/bookings/series : the insert of the series row; the handler
\* keeps the identifier it gets back.
RaceInsertSeries(c) ==
    /\ InFlight(c)
    /\ req[c].op = "createSeries"
    /\ nextSeriesId <= MaxSeries
    /\ series' = series \cup {SeriesRow(req[c], OccurrenceDates(req[c]), nextSeriesId)}
    /\ nextSeriesId' = nextSeriesId + 1
    /\ resp' = [resp EXCEPT ![c] = [NoResp EXCEPT !.row = [id |-> nextSeriesId]]]
    /\ UNCHANGED <<bookings, nextBookingId, req, before>>

\* POST /api/bookings/series : the insert of the child rows
RaceInsertChildren(c) ==
    /\ req[c] # NoReq
    /\ req[c].op = "createSeries"
    /\ resp[c].status = 0 /\ resp[c].row # NoRow
    /\ \E dates \in {OccurrenceDates(req[c])} :
       \E rows \in {ChildRows(req[c], dates, resp[c].row.id)} :
        /\ IF InsertError(bookings, rows) # 0
           THEN /\ resp' = [resp EXCEPT ![c] = Response(400, "bookings insert failed")]
                /\ UNCHANGED <<bookings, nextBookingId>>
           ELSE /\ nextBookingId + Len(dates) - 1 <= MaxBookings
                /\ bookings' = bookings \cup WithIds(rows, nextBookingId)
                /\ nextBookingId' = nextBookingId + Len(dates)
                /\ resp' = [resp EXCEPT ![c] = [Response(200, "none") EXCEPT
                                                  !.row = resp[c].row, !.dates = dates]]
        /\ UNCHANGED <<series, nextSeriesId, req, before>>

\* The answer of client c has been returned.
RaceReturn(c) ==
    /\ req[c] # NoReq
    /\ resp[c].status # 0
    /\ req' = [req EXCEPT ![c] = NoReq]
    /\ resp' = [resp EXCEPT ![c] = NoResp]
    /\ before' = [before EXCEPT ![c] = NoSnapshot]
    /\ UNCHANGED <<bookings, series, nextBookingId, nextSeriesId>>

NextRace ==
    \E c \in Clients :
        \/ \E r \in RaceSingleRequests : RaceCheckSingle(c, r)
        \/ RaceWriteSingle(c)
        \/ \E r \in RaceUpdateRequests : RaceCheckUpdate(c, r)
        \/ RaceWriteUpdate(c)
        \/ \E r \in RaceSeriesRequests : RaceCheckSeries(c, r)
        \/ RaceInsertSeries(c)
        \/ RaceInsertChildren(c)
        \/ RaceReturn(c)

SpecRace == InitRace /\ [][NextRace]_vars

(***************************************************************************)
(* Properties.                                                             *)
(***************************************************************************)
Intersect(b1, b2) ==
    /\ b1.hall_id = b2.hall_id
    /\ b1.date = b2.date
    /\ b1.start_time < b2.end_time
    /\ b2.start_time < b1.end_time

\* the row a request addresses, as it was stored before the request
Targets ==
    IF req.op \in {"update", "delete"} THEN {b \in before.bookings : b.id = req.id} ELSE {}

\* C1: no two stored bookings of one hall and date have intersecting
\* intervals, after any sequence of creates, series creates and updates.
C1_NonOverlap ==
    \A b1, b2 \in bookings : b1.id # b2.id => ~Intersect(b1, b2)

\* the generated dates of a series request that hit a stored booking
ConflictingDates(r, table) ==
    {i \in 1..Len(OccurrenceDates(r)) :
        \E b \in table :
            /\ b.hall_id = r.hall_id
            /\ b.date = OccurrenceDates(r)[i]
            /\ b.start_time < normTime(r.end_time)
            /\ b.end_time > normTime(r.start_time)}

\* C2: a series request with a generated date that overlaps a stored booking
\* of the hall ends with a conflict error and writes neither a series row
\* nor a booking row.
C2_SeriesAllOrNothing ==
    (/\ req.op = "createSeries"
     /\ SeriesChecks(req).status = 0
     /\ ConflictingDates(req, before.bookings) # {})
    => (/\ resp.error = "overlap"
        /\ bookings = before.bookings
        /\ series = before.series)

\* C3: when a series request has finished, either the parent row and one
\* child row per generated date exist, or the request has written nothing.
C3_SeriesAtomic ==
    req.op = "createSeries"
    => \/ (bookings = before.bookings /\ series = before.series)
       \/ \E s \in series \ before.series :
             \A i \in 1..Len(OccurrenceDates(req)) :
                \E b \in bookings \ before.bookings :
                    b.series_id = s.id /\ b.date = OccurrenceDates(req)[i]

\* C4: a single-mode delete without a secret, of a booking that has no stored
\* hash, succeeds and removes the booking.
C4_SecretlessDelete ==
    (/\ req.op = "delete"
     /\ req.mode = "single"
     /\ req.edit_password = ""
     /\ \E b \in Targets : b.edit_password_hash = NoHash)
    => (/\ resp.status = 200
        /\ bookings = before.bookings \ Targets)

\* C5: for a booking with a stored hash, a delete without the matching secret
\* is answered 403 and leaves the bookings as they were, in either mode; a
\* delete with the matching secret removes the booking.
C5_SecretGuardedDelete ==
    \A b \in Targets :
        (req.op = "delete" /\ b.edit_password_hash # NoHash)
        => IF b.edit_password_hash = BcryptHash(req.edit_password)
           THEN req.mode = "single"
                => (resp.status = 200 /\ bookings = before.bookings \ {b})
           ELSE resp.status = 403 /\ bookings = before.bookings

C5_Witness ==
    /\ req.op = "delete"
    /\ resp.status = 200
    /\ \E b \in Targets : b.edit_password_hash # NoHash /\ b \notin bookings

PatchedHall(b) == IF req.hall_id # 0 THEN req.hall_id ELSE b.hall_id
PatchedDate(b) == IF req.date # 0 THEN req.date ELSE b.date
PatchedStart(b) == IF req.start_time # <<>> THEN normTime(req.start_time) ELSE b.start_time
PatchedEnd(b) == IF req.end_time # <<>> THEN normTime(req.end_time) ELSE b.end_time

PatchClashes(b) ==
    \E x \in before.bookings :
        /\ x.id # b.id
        /\ x.hall_id = PatchedHall(b)
        /\ x.date = PatchedDate(b)
        /\ x.start_time < PatchedEnd(b)
        /\ PatchedStart(b) < x.end_time

\* C7: an update whose patched hall, date and interval intersect another
\* booking is rejected (as a conflict when the patched interval is well
\* ordered) and the bookings stay as they were.
C7_UpdateChecksEffective ==
    \A b \in Targets :
        (/\ req.op = "update"
         /\ ~NoFields(UpdatesOf(req))
         /\ PatchedStart(b) # InvalidTime
         /\ PatchedEnd(b) # InvalidTime
         /\ PatchClashes(b))
        => (/\ resp.status = 400
            /\ bookings = before.bookings
            /\ (PatchedEnd(b) > PatchedStart(b) => resp.error = "overlap"))

\* a patch of the hall alone is refused for a booking of the new hall
C7_Witness ==
    /\ req.op = "update"
    /\ req.hall_id # 0 /\ req.date = 0 /\ req.start_time = <<>> /\ req.end_time = <<>>
    /\ resp.error = "overlap"
    /\ \E b \in Targets : b.hall_id # req.hall_id /\ PatchClashes(b)

\* a well-formed single create: every check before the overlap check passes
WellFormedSingle ==
    /\ req.op = "createSingle"
    /\ req.hall_id \in Halls /\ req.date # 0 /\ req.requester_name # ""
    /\ normTime(req.start_time) # InvalidTime
    /\ normTime(req.end_time) # InvalidTime
    /\ normTime(req.end_time) > normTime(req.start_time)
    /\ (req.edit_password = "" \/ Len(req.edit_password) >= MinPasswordLength)

\* stored bookings of the requested hall and date
SameSlot == {b \in before.bookings : b.hall_id = req.hall_id /\ b.date = req.date}

SingleClashes ==
    {b \in SameSlot : /\ normTime(req.start_time) < b.end_time
                      /\ normTime(req.end_time) > b.start_time}

SingleTouches ==
    {b \in SameSlot : \/ normTime(req.start_time) = b.end_time
                      \/ normTime(req.end_time) = b.start_time}

\* C8: a single create that overlaps a stored booking is rejected as a
\* conflict and adds nothing; one that only touches stored bookings is
\* accepted and adds exactly its row.
C8_SingleOverlapTouch ==
    WellFormedSingle
    => /\ SingleClashes # {}
            => (resp.error = "overlap" /\ bookings = before.bookings)
       /\ (SingleClashes = {} /\ SingleTouches # {})
            => (/\ resp.status = 200
                /\ bookings \ before.bookings = {resp.row}
                /\ before.bookings \subseteq bookings
                /\ resp.row.start_time = normTime(req.start_time)
                /\ resp.row.end_time = normTime(req.end_time))

C8_Witness ==
    /\ WellFormedSingle
    /\ resp.status = 200
    /\ SingleClashes = {}
    /\ \E b \in SingleTouches : b \in bookings

\* the k-th month after the month of date dt, day clamped to the month's length
ClampedMonth(dt, k) ==
    LET m0 == dt[2] - 1 + k
        y == dt[1] + m0 \div 12
        m == (m0 % 12) + 1
    IN  <<y, m, IF dt[3] < DaysInMonth(y, m) THEN dt[3] ELSE DaysInMonth(y, m)>>

\* C9: the k-th date of a monthly series lies k months after the start, on
\* the anchor day clamped to the length of that month.
C9_MonthlyClamp ==
    (resp.status = 200 /\ req.freq = "MONTHLY")
    => \A k \in 1..Len(resp.dates) :
          resp.dates[k] = FormatDate(ClampedMonth(ParseDate(req.start_date), k - 1))

\* C10: the generated dates are strictly increasing.
C10_StrictlyIncreasing ==
    resp.status = 200
    => \A k \in 1..(Len(resp.dates) - 1) : resp.dates[k] < resp.dates[k + 1]

\* rows a request has added to the bookings
NewBookings == bookings \ before.bookings

\* C11: when a series create reports success, it has added one booking per
\* generated date and nothing else, every added booking is marked is_series
\* and refers to the series row that the same request has added.
C11_SeriesChildren ==
    (req.op = "createSeries" /\ resp.status = 200)
    => /\ Cardinality(NewBookings) = Len(OccurrenceDates(req))
       /\ \A i \in 1..Len(OccurrenceDates(req)) :
              \E b \in NewBookings : b.date = OccurrenceDates(req)[i]
       /\ \A b \in NewBookings : b.is_series /\ b.series_id = resp.row.id
       /\ \E s \in series \ before.series : s.id = resp.row.id
       /\ before.bookings \subseteq bookings

C11_Witness ==
    /\ req.op = "createSeries"
    /\ resp.status = 200
    /\ Len(OccurrenceDates(req)) = 2
    /\ Cardinality(NewBookings) = 2
    /\ \A b \in NewBookings : b.is_series /\ b.series_id = resp.row.id

\* a single create that passes every check other than the overlap check
WellFormedCreate(r) ==
    /\ r.hall_id \in Halls /\ r.date # 0 /\ r.requester_name # ""
    /\ normTime(r.start_time) # InvalidTime
    /\ normTime(r.end_time) # InvalidTime
    /\ normTime(r.end_time) > normTime(r.start_time)
    /\ (r.edit_password = "" \/ Len(r.edit_password) >= MinPasswordLength)

\* committed bookings, at the time client c ran its checks, that intersect
\* the booking its create asks for
CommittedClashes(c) == {b \in before[c].bookings : Intersect(b, SingleRow(req[c]))}

\* the committed row an update of client c addressed when it ran its checks
RaceTargets(c) == {b \in before[c].bookings : b.id = req[c].id}

\* an update that passes every check before the overlap check
WellFormedUpdate(c, b) ==
    /\ UpdatesOf(req[c]).start_time # InvalidTime
    /\ UpdatesOf(req[c]).end_time # InvalidTime
    /\ ~NoFields(UpdatesOf(req[c]))
    /\ Patched(UpdatesOf(req[c]), b).end_time > Patched(UpdatesOf(req[c]), b).start_time

CommittedPatchClashes(c, b) ==
    {x \in before[c].bookings :
        x.id # b.id /\ Intersect(x, Patched(UpdatesOf(req[c]), b))}

\* C12: the overlap check of a create or an update reads the committed
\* bookings only: it answers with the conflict error exactly when a committed
\* booking intersects the request.  A request that has passed the check and
\* has not written yet is therefore invisible to the check of a concurrent
\* request, and two requests for intersecting intervals can both pass.
C12_CheckReadsCommittedOnly ==
    \A c \in Clients :
        /\ (req[c] # NoReq /\ req[c].op = "createSingle" /\ WellFormedCreate(req[c]))
            => (resp[c].error = "overlap" <=> CommittedClashes(c) # {})
        /\ (req[c] # NoReq /\ req[c].op = "update")
            => \A b \in RaceTargets(c) :
                  WellFormedUpdate(c, b)
                  => (resp[c].error = "overlap" <=> CommittedPatchClashes(c, b) # {})

\* both clients have passed the overlap check for intersecting bookings and
\* neither has written
C12_Witness ==
    /\ \A c \in Clients : InFlight(c) /\ req[c].op = "createSingle"
    /\ Intersect(SingleRow(req[1]), SingleRow(req[2]))
    /\ \A b \in bookings : ~Intersect(b, SingleRow(req[1])) /\ ~Intersect(b, SingleRow(req[2]))

\* errors that tell the caller that the slot is taken
ConflictErrors == {"overlap", "duplicate key"}

\* C13: under concurrent single creates, series creates and updates, with
\* the unique key (hall, date, start) enforced by the store, no two stored
\* bookings of one hall and date intersect, and a request that passed its
\* checks and was refused at the write ends with a conflict error.
C13_RaceNonOverlap ==
    /\ \A b1, b2 \in bookings : b1.id # b2.id => ~Intersect(b1, b2)
    /\ \A c \in Clients :
          (/\ req[c] # NoReq
           /\ req[c].op = "createSingle"
           /\ SingleChecks(before[c].bookings, req[c]).status = 0
           /\ resp[c].status \notin {0, 200})
          => resp[c].error \in ConflictErrors

\* answers the three writing handlers give when the store refuses a write for
\* the unique key: POST, PATCH and the child insert of the series POST
UniqueViolationAnswers == {mapPgError(23505), PgMessage(23505), "bookings insert failed"}

\* C14: a write that the store refuses for the unique key is answered with
\* the conflict error of the overlap check, by single create, update and
\* series create alike.
C14_UniqueViolationIsConflict ==
    \A c \in Clients :
        resp[c].error \in UniqueViolationAnswers
        => (resp[c].status = 400 /\ resp[c].error \in ConflictErrors)

\* C15: the answer of a successful single create or update carries no
\* password hash.
C15_ResponseOmitsHash ==
    (req.op \in {"createSingle", "update"} /\ resp.status = 200)
    => resp.row.edit_password_hash = NoHash

\* C16: an update whose patched interval does not end strictly after it
\* starts is rejected for the ordering and leaves the bookings as they were,
\* also when the patch holds one of the two times and the other is the
\* stored one.
C16_UpdateOrdering ==
    \A b \in Targets :
        (/\ req.op = "update"
         /\ ~NoFields(UpdatesOf(req))
         /\ PatchedStart(b) # InvalidTime
         /\ PatchedEnd(b) # InvalidTime
         /\ PatchedEnd(b) <= PatchedStart(b))
        => (/\ resp.status = 400
            /\ resp.error = "end not after start"
            /\ bookings = before.bookings)

\* a patch of the end alone is refused against the stored start
C16_Witness ==
    /\ req.op = "update"
    /\ req.start_time = <<>> /\ req.end_time # <<>>
    /\ resp.error = "end not after start"
    /\ bookings = before.bookings
    /\ \E b \in Targets : normTime(req.end_time) <= b.start_time

\* C17: a successful update replaces the addressed row by a row that holds
\* the patch's value in every field the patch names and the stored value in
\* every other field; the other bookings and the series rows are unchanged.
C17_UpdateFrame ==
    \A b \in Targets :
        (req.op = "update" /\ resp.status = 200)
        => /\ series = before.series
           /\ \E n \in bookings :
                 /\ bookings = (before.bookings \ {b}) \cup {n}
                 /\ n.id = b.id
                 /\ n.hall_id = PatchedHall(b)
                 /\ n.date = PatchedDate(b)
                 /\ n.start_time = PatchedStart(b)
                 /\ n.end_time = PatchedEnd(b)
                 /\ n.requester_name =
                        (IF req.requester_name # "" THEN req.requester_name
                         ELSE b.requester_name)
                 /\ n.group_name = b.group_name
                 /\ n.is_series = b.is_series
                 /\ n.series_id = b.series_id
                 /\ n.edit_password_hash = b.edit_password_hash
                 /\ n.edit_password_hint = b.edit_password_hint

\* the hall of an occurrence of a series is changed next to another booking
C17_Witness ==
    /\ req.op = "update"
    /\ resp.status = 200
    /\ req.hall_id # 0 /\ req.requester_name = ""
    /\ Cardinality(bookings) = 2
    /\ \E b \in Targets :
          /\ b.is_series /\ b.hall_id # req.hall_id
          /\ \E n \in bookings : n.id = b.id /\ n.hall_id = req.hall_id /\ n.is_series

\* C18: a single-mode delete removes no booking other than the addressed one,
\* and when it succeeds it removes exactly that one.
C18_SingleDeleteFrame ==
    (req.op = "delete" /\ req.mode = "single")
    => /\ before.bookings \ Targets \subseteq bookings
       /\ bookings \subseteq before.bookings
       /\ series = before.series
       /\ resp.status = 200 => bookings = before.bookings \ Targets

C18_Witness ==
    /\ req.op = "delete" /\ req.mode = "single"
    /\ resp.status = 200
    /\ Targets # {} /\ Targets \cap bookings = {}
    /\ bookings # {} /\ bookings = before.bookings \ Targets

\* C19: a series-mode delete that passes the password check on a booking
\* without a series reference is answered with the not-a-series error and
\* removes nothing.
C19_NotASeries ==
    \A b \in Targets :
        (/\ req.op = "delete"
         /\ req.mode = "series"
         /\ b.edit_password_hash = BcryptHash(req.edit_password)
         /\ b.series_id = 0)
        => (/\ resp.status = 400
            /\ resp.error = "not a series"
            /\ bookings = before.bookings)

C19_Witness ==
    /\ req.op = "delete" /\ req.mode = "series"
    /\ resp.error = "not a series"
    /\ \E b \in Targets : b.series_id = 0 /\ b \in bookings
    /\ Cardinality(bookings) = 2

\* C20: an update (with a well-formed, non-empty patch) or a delete that
\* addresses an identifier no booking has is answered with the not-found
\* status 404 and changes nothing.
C20_UnknownIdNotFound ==
    (/\ req.op \in {"update", "delete"}
     /\ Targets = {}
     /\ req.op = "update"
          => (/\ ~NoFields(UpdatesOf(req))
              /\ UpdatesOf(req).start_time # InvalidTime
              /\ UpdatesOf(req).end_time # InvalidTime))
    => (/\ resp.status = 404
        /\ bookings = before.bookings
        /\ series = before.series)

\* C21: an update whose patch names no field (every field absent, null or
\* empty) is answered with the no-fields error whatever the table holds, also
\* when no booking has the identifier, and writes nothing.
C21_EmptyPatchRejected ==
    (/\ req.op = "update"
     /\ req.hall_id = 0 /\ req.date = 0
     /\ req.start_time = <<>> /\ req.end_time = <<>>
     /\ req.requester_name = "")
    => (/\ resp.status = 400
        /\ resp.error = "no fields to update"
        /\ bookings = before.bookings
        /\ series = before.series)

\* the empty patch is refused for an identifier that a read would not find
C21_Witness ==
    /\ req.op = "update"
    /\ req.requester_name = "" /\ req.hall_id = 0 /\ req.date = 0
    /\ req.start_time = <<>> /\ req.end_time = <<>>
    /\ Targets = {}
    /\ bookings # {}
    /\ resp.error = "no fields to update"

RECURSIVE NextOnWeekday(_, _)
\* first day from dt on whose weekday is in the non-empty set W
NextOnWeekday(dt, W) == IF GetDay(dt) \in W THEN dt ELSE NextOnWeekday(AddDays(dt, 1), W)

RECURSIVE WeekdayDates(_, _, _)
\* the first n days from dt on whose weekday is in W
WeekdayDates(dt, W, n) ==
    IF n = 0 THEN <<>>
    ELSE <<FormatDate(NextOnWeekday(dt, W))>>
         \o WeekdayDates(AddDays(NextOnWeekday(dt, W), 1), W, n - 1)

\* C22: a weekly series with a weekday set and an occurrence count generates
\* the first days from the start date on whose weekday is in the set, as many
\* as the count.
C22_WeeklyWeekdaySet ==
    (/\ resp.status = 200
     /\ req.freq = "WEEKLY"
     /\ req.byweekday # {}
     /\ req.occurrences > 0
     /\ req.until = 0)
    => resp.dates = WeekdayDates(ParseDate(req.start_date), req.byweekday, req.occurrences)

\* C23: a series request without until and without occurrences generates
\* exactly 10 dates.
C23_DefaultCap ==
    (resp.status = 200 /\ req.occurrences = 0 /\ req.until = 0)
    => Len(resp.dates) = 10

C23_Witness ==
    /\ resp.status = 200
    /\ req.occurrences = 0 /\ req.until = 0
    /\ req.freq = "WEEKLY"
    /\ Len(resp.dates) = 10
    /\ resp.dates[1] = req.start_date
    /\ resp.dates[10] = FormatDate(AddDays(ParseDate(req.start_date), 63))

\* C25: with until given, every generated date is on or before until, and
\* for a weekly or fortnightly series without occurrences a recurrence date
\* that falls on until within the first ten steps is generated.
C25_UntilInclusive ==
    (resp.status = 200 /\ req.until # 0)
    => /\ \A k \in 1..Len(resp.dates) : resp.dates[k] <= req.until
       /\ (/\ req.freq \in {"WEEKLY", "FORTNIGHTLY"}
           /\ req.occurrences = 0
           /\ \E j \in 0..10 :
                 FormatDate(AddDays(ParseDate(req.start_date),
                                    j * (IF req.freq = "WEEKLY" THEN 7 ELSE 14))) = req.until)
          => \E k \in 1..Len(resp.dates) : resp.dates[k] = req.until

\* C26: the expansion never generates more than 500 dates.
C26_SafetyCeiling ==
    resp.status = 200 => Len(resp.dates) <= 500

\* a series request that passes the checks of the fields, of the times and
\* of the hall
SeriesWellFormed ==
    /\ req.op = "createSeries"
    /\ req.hall_id \in Halls /\ req.start_date # 0 /\ req.freq # "" /\ req.title # ""
    /\ normTime(req.start_time) # InvalidTime
    /\ normTime(req.end_time) # InvalidTime
    /\ toMinutes(normTime(req.end_time)) > toMinutes(normTime(req.start_time))

\* C24: a series request whose until date is before its start date is
\* answered with the no-occurrences error and writes no row.
C24_NoOccurrences ==
    (SeriesWellFormed /\ req.until # 0 /\ req.until < req.start_date)
    => (/\ resp.status = 400
        /\ resp.error = "no occurrences"
        /\ bookings = before.bookings
        /\ series = before.series)

\* C27: a series request that names a hall which does not exist, and is
\* otherwise well formed, is answered with the invalid-hall error and writes
\* neither a series row nor a booking.
C27_InvalidHall ==
    (/\ req.op = "createSeries"
     /\ req.hall_id # 0 /\ req.hall_id \notin Halls
     /\ req.start_date # 0 /\ req.freq # "" /\ req.title # ""
     /\ normTime(req.start_time) # InvalidTime
     /\ normTime(req.end_time) # InvalidTime
     /\ toMinutes(normTime(req.end_time)) > toMinutes(normTime(req.start_time)))
    => (/\ resp.status = 400
        /\ resp.error = "invalid hall"
        /\ bookings = before.bookings
        /\ series = before.series)

C27_Witness ==
    /\ req.op = "createSeries"
    /\ req.hall_id # 0 /\ req.hall_id \notin Halls
    /\ resp.error = "invalid hall"
    /\ series = before.series /\ bookings = before.bookings

\* rows a request has added to the series
NewSeries == series \ before.series

\* C28: the series row a series request writes starts on the first generated
\* date, ends on the last one, has interval 2 for FORTNIGHTLY and 1
\* otherwise, and lists in increasing order exactly the weekdays of the
\* generated dates.
C28_SeriesParentRow ==
    req.op = "createSeries"
    => \A s \in NewSeries :
          /\ s.start_date = OccurrenceDates(req)[1]
          /\ s.end_date = OccurrenceDates(req)[Len(OccurrenceDates(req))]
          /\ s.interval = (IF req.freq = "FORTNIGHTLY" THEN 2 ELSE 1)
          /\ {s.byweekday[i] : i \in 1..Len(s.byweekday)}
                = {GetDay(ParseDate(OccurrenceDates(req)[k])) :
                     k \in 1..Len(OccurrenceDates(req))}
          /\ \A i \in 1..(Len(s.byweekday) - 1) : s.byweekday[i] < s.byweekday[i + 1]

\* a monthly series of a Monday and a Thursday
C28_Witness ==
    /\ req.op = "createSeries"
    /\ resp.status = 200
    /\ \E s \in NewSeries :
          /\ s.start_date = Day1
          /\ s.end_date = FormatDate(<<2025, 2, 6>>)
          /\ s.byweekday = <<1, 4>>
          /\ s.interval = 1

\* C29: a series request whose frequency is none of WEEKLY, FORTNIGHTLY and
\* MONTHLY is answered with a validation error and writes no row.
C29_FrequencyValidated ==
    (req.op = "createSeries" /\ req.freq \notin {"WEEKLY", "FORTNIGHTLY", "MONTHLY"})
    => (/\ resp.status = 400
        /\ bookings = before.bookings
        /\ series = before.series)

\* a single create that one of the listed checks refuses
RejectedSingle ==
    \/ req.hall_id = 0 \/ req.date = 0 \/ req.start_time = <<>> \/ req.end_time = <<>>
    \/ req.requester_name = ""
    \/ (/\ normTime(req.start_time) # InvalidTime
        /\ normTime(req.end_time) # InvalidTime
        /\ \/ normTime(req.end_time) <= normTime(req.start_time)
           \/ SingleClashes # {}
           \/ (req.edit_password # "" /\ Len(req.edit_password) < 4))

C31_SeriesReferenceIffFlag ==
    \A b \in bookings : b.is_series <=> b.series_id # 0

\* a single booking and an occurrence of a series are stored together
C31_Witness ==
    \E b1, b2 \in bookings :
        /\ b1.is_series /\ b1.series_id # 0
        /\ ~b2.is_series /\ b2.series_id = 0

\* C32: every stored booking ends strictly after it starts, after any
\* sequence of single creates, series creates and updates.
C32_EndAfterStart ==
    \A b \in bookings : b.end_time > b.start_time

\* an update has patched the end alone and the row is well ordered
C32_Witness ==
    /\ req.op = "update"
    /\ resp.status = 200
    /\ req.start_time = <<>> /\ req.end_time # <<>>
    /\ \E b \in bookings :
          /\ b.id = req.id
          /\ b.end_time = normTime(req.end_time)
          /\ b.end_time > b.start_time
          /\ b \notin before.bookings

\* the patch leaves the hall, the date and the times of row b as they are
KeepsPlace(b) ==
    /\ PatchedHall(b) = b.hall_id
    /\ PatchedDate(b) = b.date
    /\ PatchedStart(b) = b.start_time
    /\ PatchedEnd(b) = b.end_time

\* C35: an update that leaves hall, date and times unchanged, of a booking
\* that intersects no other booking, is not refused as a conflict: it is
\* accepted.
C35_UpdateExcludesSelf ==
    \A b \in Targets :
        (/\ req.op = "update"
         /\ ~NoFields(UpdatesOf(req))
         /\ KeepsPlace(b)
         /\ \A x \in before.bookings : x.id # b.id => ~Intersect(x, b))
        => (resp.error # "overlap" /\ resp.status = 200)

\* the requester name alone has been patched
C35_Witness ==
    /\ req.op = "update"
    /\ req.requester_name # ""
    /\ resp.status = 200
    /\ \E b \in Targets : KeepsPlace(b) /\ b.requester_name # req.requester_name
    /\ \E n \in bookings : n.id = req.id /\ n.requester_name = req.requester_name

\* C33: the overlap test gives the same answer for (A, B) and for (B, A),
\* in the create handler's form and in the update handler's form.
C33_OverlapSymmetric ==
    (req.op = "overlap" /\ resp.status = 200)
    => (/\ resp.row.ab.create = resp.row.ba.create
        /\ resp.row.ab.update = resp.row.ba.update)

\* two different intervals that overlap, asked both ways
C33_Witness ==
    /\ req.op = "overlap"
    /\ resp.status = 200
    /\ req.a.start_time < req.b.start_time
    /\ req.a.end_time < req.b.end_time
    /\ resp.row.ab.create /\ resp.row.ba.create
    /\ resp.row.ab.update /\ resp.row.ba.update

\* the characters of a text reduced to digit, colon and other
Shape(t) ==
    [i \in 1..Len(t) |-> IF IsDigit(t[i]) THEN "d" ELSE IF t[i] = ":" THEN ":" ELSE "x"]

\* the result n of a normaliser on the request's text is canonical: HH:MM
\* gains ":00", HH:MM:SS is returned as it is, normalising the result again
\* returns it unchanged, and every other text is rejected
Canonical(n) ==
    IF Shape(req.text) = <<"d", "d", ":", "d", "d">>
    THEN n.once = Returned(req.text \o <<":", "0", "0">>) /\ n.twice = n.once
    ELSE IF Shape(req.text) = <<"d", "d", ":", "d", "d", ":", "d", "d">>
    THEN n.once = Returned(req.text) /\ n.twice = n.once
    ELSE ~n.once.ok

\* C34: each of the three time normalisers turns HH:MM and HH:MM:SS into
\* HH:MM:SS, returns its own result unchanged, and rejects any other input
\* (the empty text given to the update normaliser stands for an absent field
\* and is left aside).
C34_NormalizeCanonical ==
    (req.op = "normalize" /\ resp.status = 200)
    => (/\ Canonical(resp.row.create)
        /\ (req.text # <<>> => Canonical(resp.row.update))
        /\ Canonical(resp.row.series))

\* days from 1970-01-01 to the date f
DayNumber(f) ==
    LET d == ParseDate(f)
    IN  DaysBeforeYear(d[1]) + DaysBeforeMonth(d[1], d[2]) + d[3] - 1

\* C36: for WEEKLY and FORTNIGHTLY the first generated date is start_date
\* and every following date is exactly 7, respectively 14, days after the
\* one before it.
C36_WeeklyStep ==
    (resp.status = 200 /\ req.op = "expand" /\ req.freq \in {"WEEKLY", "FORTNIGHTLY"})
    => /\ Len(resp.dates) >= 1
       /\ resp.dates[1] = req.start_date
       /\ \A k \in 1..(Len(resp.dates) - 1) :
             DayNumber(resp.dates[k + 1]) - DayNumber(resp.dates[k])
                 = (IF req.freq = "WEEKLY" THEN 7 ELSE 14)

\* a fortnightly series of four dates that runs over the end of two months
C36_Witness ==
    /\ resp.status = 200
    /\ req.op = "expand"
    /\ req.freq = "FORTNIGHTLY"
    /\ resp.dates = <<20250128, 20250211, 20250225, 20250311>>

\* C40: with a count n > 0 and an until date, at most n dates are
\* generated, none of them is after until, and fewer than n are generated
\* only when the next date of the recurrence is after until.
C40_CountAndUntil ==
    (resp.status = 200 /\ req.op = "expand" /\ req.occurrences > 0 /\ req.until # 0)
    => /\ Len(resp.dates) <= req.occurrences
       /\ \A k \in 1..Len(resp.dates) : resp.dates[k] <= req.until
       /\ (Len(resp.dates) >= 1 /\ Len(resp.dates) < req.occurrences)
          => FormatDate(addUnit(req.freq, ParseDate(resp.dates[Len(resp.dates)]))) > req.until

\* C37: an update is accepted without any secret, for a booking that holds
\* a secret hash as for one that holds none: whenever the patch names a
\* field, its times are well formed and ordered, its hall exists and the
\* patched booking intersects no other booking.
C37_UpdateWithoutSecret ==
    \A b \in Targets :
        (/\ req.op = "update"
         /\ ~NoFields(UpdatesOf(req))
         /\ PatchedStart(b) # InvalidTime
         /\ PatchedEnd(b) # InvalidTime
         /\ PatchedEnd(b) > PatchedStart(b)
         /\ PatchedHall(b) \in Halls
         /\ ~PatchClashes(b))
        => (/\ resp.status = 200
            /\ \E n \in bookings :
                  /\ n.id = b.id
                  /\ n.end_time = PatchedEnd(b)
                  /\ n.edit_password_hash = b.edit_password_hash)

\* the end of a booking that holds a secret hash has been patched
C37_Witness ==
    /\ req.op = "update"
    /\ req.end_time # <<>>
    /\ resp.status = 200
    /\ \E b \in Targets :
          /\ b.edit_password_hash # NoHash
          /\ b.end_time # normTime(req.end_time)
          /\ \E n \in bookings : n.id = b.id /\ n.end_time = normTime(req.end_time)

\* the secrets a delete request may carry
Secrets == {"", "pw01", "pw02", "hint"}

\* C38: every stored booking can be cancelled: some delete request for it
\* passes the secret check, which a delete of either mode has to pass before
\* it removes anything.
C38_Cancellable ==
    \A b \in bookings :
        \E pw \in Secrets : verifyBookingPassword(bookings, b.id, pw) = "ok"

====
